---- MODULE Spec2Model ----
(***************************************************************************)
(* Pre-trade gate and order placement of the trading bot.                  *)
(*                                                                         *)
(*   rules_gate.py : trading windows, per-window trade counter,            *)
(*                   protected tickers (allow_order / record_order)        *)
(*   orders.py     : risk_ok, place_equity_market,                         *)
(*                   place_equity_size_by_atr                              *)
(*   risk.py       : position_size_by_atr, as the specification has it     *)
(*   discovery_engine.py : the screening gates and run_scan                *)
(*                                                                         *)
(* Times of day are minutes after midnight in the exchange time zone; a    *)
(* timestamp is a record [day, tod].  The wall clock only moves forward.   *)
(***************************************************************************)
EXTENDS Integers, Sequences, FiniteSets, TLC

\* ------------------------------------------------------------------ bounds
MaxDay == 1
NumEvaluators == 2
MaxQty == 3
MaxPos == 2

\* ------------------------------------------------- rules_gate.py constants
time(h, m) == h * 60 + m

TRADE_WINDOWS == << <<time(6, 30), time(7, 30)>>, <<time(12, 0), time(13, 0)>> >>

MAX_TRADES_PER_WINDOW == 2

PROTECTED_NEVER_SELL == {"CWH"}

ACCOUNT_ID == "ACCT"

\* ------------------------------------------- discovery_engine.py constants
MIN_PRICE == 50

MIN_VOLUME == 2000000

\* ------------------------------------------------------------- input sets
Days == 0 .. MaxDay
TimePoints == {time(6, 30), time(7, 30), time(7, 31), time(13, 0)}
Stamps == [day : Days, tod : TimePoints]
\* Times of day at, next to and between the window endpoints, for looking up
\* the window of a timestamp.
WindowTimePoints ==
    {time(6, 29), time(6, 30), time(7, 0), time(7, 30), time(7, 31),
     time(9, 0), time(11, 59), time(12, 0), time(12, 30), time(13, 0),
     time(13, 1)}
WindowStamps == [day : Days, tod : WindowTimePoints]
Symbols == {"CWH", "cwh", "AAPL"}
Sides == {"Buy", "Sell"}
Quantities == (0 - MaxQty) .. MaxQty
SizerOutputs == (0 - 1) .. MaxQty
RepeatQuantities == {0 - 1, 1, MaxQty}
\* Sizer inputs: account equity in dollars, risk per trade in basis points
\* (100 = 0.01), ATR and stop multiple in tenths (20 = 2.0, 15 = 1.5).
AccountEquities == {0, 300, 100000}
RiskFractions == {0, 50, 100}
Atrs == {0, 10, 20}
StopAtrMults == {0 - 10, 10, 15}
\* Scanner inputs.  A sector is what yf.Ticker(t).info.get('sector',
\* 'Unknown') gives: a sector name, 'Unknown', or an empty value ("" here,
\* standing for '' and None alike: both are falsy and equal to no name).
Tickers == {"AAPL", "MSFT", "XOM"}
Sectors == {"Technology", "Energy", "Unknown", ""}
Missing == 0 - 1
RsiError == 0 - 1
ClosePrices == {Missing, MIN_PRICE, MIN_PRICE + 1}
Volumes == {Missing, MIN_VOLUME, MIN_VOLUME + 1}
RsiValues == {RsiError, 34, 35}
TickerData == [empty : BOOLEAN, Close : ClosePrices, Volume : Volumes,
               rsi : RsiValues]
Evaluators == 1 .. NumEvaluators
Keys == Days \X {0, 1}

None == << >>

\* str.upper() on the symbols used here
upper(s) == IF s = "cwh" THEN "CWH" ELSE s

abs(n) == IF n < 0 THEN 0 - n ELSE n

Min(S) == CHOOSE x \in S : \A y \in S : x <= y

NotAfter(a, b) == a.day < b.day \/ (a.day = b.day /\ a.tod <= b.tod)

VARIABLES
    now,            \* the wall clock datetime.now(PT)
    window_trades,  \* _window_trades: {(date, idx): count}, absent key = 0
    pc,             \* per evaluator: "idle", or "admitted" (allow_order
                    \* returned True and record_order is still to be called)
    admitKey,       \* per evaluator: the key allow_order examined when it
                    \* admitted (None when it examined none)
    last,           \* the allow_order (or sizer) call that has just returned
    run,            \* the calls that examined the window the clock is in
    KILL_SWITCH, MAX_POS_SIZE, AUTO_LIQUIDATE, DRY_RUN, OFFLINE_MODE,
    order,          \* the orders.py call that has just returned or is running
    prev,           \* an earlier place_equity_market call, kept for comparison
    SCREENED_SECTORS,    \* discovery_engine.SCREENED_SECTORS (a list)
    successful_tickers,  \* run_scan's list of the scan running or last run
    scan            \* run_scan: where it is, and the tickers still to scan

cfgVars == <<KILL_SWITCH, MAX_POS_SIZE, AUTO_LIQUIDATE, DRY_RUN, OFFLINE_MODE>>
vars == <<now, window_trades, pc, admitKey, last, run,
          KILL_SWITCH, MAX_POS_SIZE, AUTO_LIQUIDATE, DRY_RUN, OFFLINE_MODE,
          order, prev, SCREENED_SECTORS, successful_tickers, scan>>
scanVars == <<SCREENED_SECTORS, successful_tickers, scan>>

\* ------------------------------------------------------------ rules_gate.py
\* in_window: any(start <= now <= end for start, end in TRADE_WINDOWS)
in_window_no_end(t) ==
    \E i \in DOMAIN TRADE_WINDOWS : TRADE_WINDOWS[i][1] <= t

in_window(t) ==
    \E i \in DOMAIN TRADE_WINDOWS :
        TRADE_WINDOWS[i][1] <= t /\ t <= TRADE_WINDOWS[i][2]

\* window_key: (date, idx) of the first window containing dt.time(), or None
window_key_exclusive_end(dt) ==
    LET hits == {i \in DOMAIN TRADE_WINDOWS :
                    TRADE_WINDOWS[i][1] <= dt.tod /\ dt.tod < TRADE_WINDOWS[i][2]}
    IN  IF hits = {} THEN None ELSE <<dt.day, Min(hits) - 1>>

window_key(dt) ==
    LET hits == {i \in DOMAIN TRADE_WINDOWS :
                    TRADE_WINDOWS[i][1] <= dt.tod /\ dt.tod <= TRADE_WINDOWS[i][2]}
    IN  IF hits = {} THEN None ELSE <<dt.day, Min(hits) - 1>>

\* _window_trades.get(wk, 0)
get(trades, wk) == trades[wk]

\* allow_order(symbol, side): t_in is the clock read of in_window(), dt_key the
\* later clock read of window_key(), trades the counter table it consults.
allow_order_cap_off_by_one(symbol, side, t_in, dt_key, trades) ==
    IF ~in_window(t_in.tod)
    THEN [ok |-> FALSE, reason |-> "outside_playbook_window"]
    ELSE IF side = "Sell" /\ upper(symbol) \in PROTECTED_NEVER_SELL
    THEN [ok |-> FALSE, reason |-> "protected_ticker_never_sell"]
    ELSE IF window_key(dt_key) # None
            /\ get(trades, window_key(dt_key)) > MAX_TRADES_PER_WINDOW
    THEN [ok |-> FALSE, reason |-> "max_trades_this_window"]
    ELSE [ok |-> TRUE, reason |-> ""]

allow_order_no_upper(symbol, side, t_in, dt_key, trades) ==
    IF ~in_window(t_in.tod)
    THEN [ok |-> FALSE, reason |-> "outside_playbook_window"]
    ELSE IF side = "Sell" /\ symbol \in PROTECTED_NEVER_SELL
    THEN [ok |-> FALSE, reason |-> "protected_ticker_never_sell"]
    ELSE IF window_key(dt_key) # None
            /\ get(trades, window_key(dt_key)) >= MAX_TRADES_PER_WINDOW
    THEN [ok |-> FALSE, reason |-> "max_trades_this_window"]
    ELSE [ok |-> TRUE, reason |-> ""]

\* A gate whose throttle denial carries no reason.
allow_order_silent_cap(symbol, side, t_in, dt_key, trades) ==
    IF ~in_window(t_in.tod)
    THEN [ok |-> FALSE, reason |-> "outside_playbook_window"]
    ELSE IF side = "Sell" /\ upper(symbol) \in PROTECTED_NEVER_SELL
    THEN [ok |-> FALSE, reason |-> "protected_ticker_never_sell"]
    ELSE IF window_key(dt_key) # None
            /\ get(trades, window_key(dt_key)) >= MAX_TRADES_PER_WINDOW
    THEN [ok |-> FALSE, reason |-> ""]
    ELSE [ok |-> TRUE, reason |-> ""]

\* A gate that keeps protected tickers from being bought as well.
allow_order_blocks_buy(symbol, side, t_in, dt_key, trades) ==
    IF ~in_window(t_in.tod)
    THEN [ok |-> FALSE, reason |-> "outside_playbook_window"]
    ELSE IF upper(symbol) \in PROTECTED_NEVER_SELL
    THEN [ok |-> FALSE, reason |-> "protected_ticker_never_sell"]
    ELSE IF window_key(dt_key) # None
            /\ get(trades, window_key(dt_key)) >= MAX_TRADES_PER_WINDOW
    THEN [ok |-> FALSE, reason |-> "max_trades_this_window"]
    ELSE [ok |-> TRUE, reason |-> ""]

allow_order(symbol, side, t_in, dt_key, trades) ==
    IF ~in_window(t_in.tod)
    THEN [ok |-> FALSE, reason |-> "outside_playbook_window"]
    ELSE IF side = "Sell" /\ upper(symbol) \in PROTECTED_NEVER_SELL
    THEN [ok |-> FALSE, reason |-> "protected_ticker_never_sell"]
    ELSE IF window_key(dt_key) # None
            /\ get(trades, window_key(dt_key)) >= MAX_TRADES_PER_WINDOW
    THEN [ok |-> FALSE, reason |-> "max_trades_this_window"]
    ELSE [ok |-> TRUE, reason |-> ""]

\* record_order(): dt is its clock read
record_order_no_increment(trades, dt) == trades

\* A record_order that counts the trade in every window of the day.
record_order_every_window(trades, dt) ==
    IF window_key(dt) # None
    THEN [k \in DOMAIN trades |->
             IF k[1] = dt.day THEN trades[k] + 1 ELSE trades[k]]
    ELSE trades

record_order(trades, dt) ==
    IF window_key(dt) # None
    THEN [trades EXCEPT ![window_key(dt)] = get(trades, window_key(dt)) + 1]
    ELSE trades

\* The key whose counter an allow_order call compared with the cap, or None
\* when the call returned before that comparison or found no key.
ExaminedKey(symbol, side, t_in, dt_key) ==
    IF in_window(t_in.tod)
       /\ ~(side = "Sell" /\ upper(symbol) \in PROTECTED_NEVER_SELL)
    THEN window_key(dt_key)
    ELSE None

\* ---------------------------------------------------------------- orders.py
\* Outcomes of the collaborators orders.py calls: check_risk_limits()
\* (limits fine, limits breached, or the call fails), enforce_limits() and
\* api_post() (the call returns or fails).
RiskOutcomes == {"ok", "breach", "error"}
CallOutcomes == {"ok", "error"}

\* risk_ok(symbol, qty): risk and liq are what check_risk_limits() and
\* enforce_limits() do if called.  ok is the returned boolean, raised tells
\* that a collaborator's exception left the function instead, log is the
\* line written to the logger.
risk_ok_no_kill_switch(symbol, qty, risk, liq) ==
    IF abs(qty) > MAX_POS_SIZE
    THEN [ok |-> FALSE, raised |-> FALSE, riskCalls |-> 0, liqCalls |-> 0,
          log |-> "Qty %s exceeds MAX_POS_SIZE %s"]
    ELSE IF OFFLINE_MODE
    THEN [ok |-> TRUE, raised |-> FALSE, riskCalls |-> 0, liqCalls |-> 0,
          log |-> "OFFLINE_MODE=true -> skipping broker risk checks"]
    ELSE IF risk = "error"
    THEN [ok |-> FALSE, raised |-> TRUE, riskCalls |-> 1, liqCalls |-> 0,
          log |-> ""]
    ELSE IF risk = "breach"
    THEN IF AUTO_LIQUIDATE
         THEN [ok |-> FALSE, raised |-> liq = "error", riskCalls |-> 1,
               liqCalls |-> 1, log |-> "Risk limits breached: %s"]
         ELSE [ok |-> FALSE, raised |-> FALSE, riskCalls |-> 1,
               liqCalls |-> 0, log |-> "Risk limits breached: %s"]
    ELSE [ok |-> TRUE, raised |-> FALSE, riskCalls |-> 1, liqCalls |-> 0,
          log |-> ""]

risk_ok_no_max_pos(symbol, qty, risk, liq) ==
    IF KILL_SWITCH
    THEN [ok |-> FALSE, raised |-> FALSE, riskCalls |-> 0, liqCalls |-> 0,
          log |-> "Kill switch active - blocking orders"]
    ELSE IF OFFLINE_MODE
    THEN [ok |-> TRUE, raised |-> FALSE, riskCalls |-> 0, liqCalls |-> 0,
          log |-> "OFFLINE_MODE=true -> skipping broker risk checks"]
    ELSE IF risk = "error"
    THEN [ok |-> FALSE, raised |-> TRUE, riskCalls |-> 1, liqCalls |-> 0,
          log |-> ""]
    ELSE IF risk = "breach"
    THEN IF AUTO_LIQUIDATE
         THEN [ok |-> FALSE, raised |-> liq = "error", riskCalls |-> 1,
               liqCalls |-> 1, log |-> "Risk limits breached: %s"]
         ELSE [ok |-> FALSE, raised |-> FALSE, riskCalls |-> 1,
               liqCalls |-> 0, log |-> "Risk limits breached: %s"]
    ELSE [ok |-> TRUE, raised |-> FALSE, riskCalls |-> 1, liqCalls |-> 0,
          log |-> ""]

risk_ok_no_offline(symbol, qty, risk, liq) ==
    IF KILL_SWITCH
    THEN [ok |-> FALSE, raised |-> FALSE, riskCalls |-> 0, liqCalls |-> 0,
          log |-> "Kill switch active - blocking orders"]
    ELSE IF abs(qty) > MAX_POS_SIZE
    THEN [ok |-> FALSE, raised |-> FALSE, riskCalls |-> 0, liqCalls |-> 0,
          log |-> "Qty %s exceeds MAX_POS_SIZE %s"]
    ELSE IF risk = "error"
    THEN [ok |-> FALSE, raised |-> TRUE, riskCalls |-> 1, liqCalls |-> 0,
          log |-> ""]
    ELSE IF risk = "breach"
    THEN IF AUTO_LIQUIDATE
         THEN [ok |-> FALSE, raised |-> liq = "error", riskCalls |-> 1,
               liqCalls |-> 1, log |-> "Risk limits breached: %s"]
         ELSE [ok |-> FALSE, raised |-> FALSE, riskCalls |-> 1,
               liqCalls |-> 0, log |-> "Risk limits breached: %s"]
    ELSE [ok |-> TRUE, raised |-> FALSE, riskCalls |-> 1, liqCalls |-> 0,
          log |-> ""]

\* A risk check that lets the order through when the risk service cannot be
\* reached.
risk_ok_fail_open(symbol, qty, risk, liq) ==
    IF KILL_SWITCH
    THEN [ok |-> FALSE, raised |-> FALSE, riskCalls |-> 0, liqCalls |-> 0,
          log |-> "Kill switch active - blocking orders"]
    ELSE IF abs(qty) > MAX_POS_SIZE
    THEN [ok |-> FALSE, raised |-> FALSE, riskCalls |-> 0, liqCalls |-> 0,
          log |-> "Qty %s exceeds MAX_POS_SIZE %s"]
    ELSE IF OFFLINE_MODE
    THEN [ok |-> TRUE, raised |-> FALSE, riskCalls |-> 0, liqCalls |-> 0,
          log |-> "OFFLINE_MODE=true -> skipping broker risk checks"]
    ELSE IF risk = "error"
    THEN [ok |-> TRUE, raised |-> FALSE, riskCalls |-> 1, liqCalls |-> 0,
          log |-> ""]
    ELSE IF risk = "breach"
    THEN IF AUTO_LIQUIDATE
         THEN [ok |-> FALSE, raised |-> liq = "error", riskCalls |-> 1,
               liqCalls |-> 1, log |-> "Risk limits breached: %s"]
         ELSE [ok |-> FALSE, raised |-> FALSE, riskCalls |-> 1,
               liqCalls |-> 0, log |-> "Risk limits breached: %s"]
    ELSE [ok |-> TRUE, raised |-> FALSE, riskCalls |-> 1, liqCalls |-> 0,
          log |-> ""]

risk_ok_max_pos_off_by_one(symbol, qty, risk, liq) ==
    IF KILL_SWITCH
    THEN [ok |-> FALSE, raised |-> FALSE, riskCalls |-> 0, liqCalls |-> 0,
          log |-> "Kill switch active - blocking orders"]
    ELSE IF abs(qty) > MAX_POS_SIZE + 1
    THEN [ok |-> FALSE, raised |-> FALSE, riskCalls |-> 0, liqCalls |-> 0,
          log |-> "Qty %s exceeds MAX_POS_SIZE %s"]
    ELSE IF OFFLINE_MODE
    THEN [ok |-> TRUE, raised |-> FALSE, riskCalls |-> 0, liqCalls |-> 0,
          log |-> "OFFLINE_MODE=true -> skipping broker risk checks"]
    ELSE IF risk = "error"
    THEN [ok |-> FALSE, raised |-> TRUE, riskCalls |-> 1, liqCalls |-> 0,
          log |-> ""]
    ELSE IF risk = "breach"
    THEN IF AUTO_LIQUIDATE
         THEN [ok |-> FALSE, raised |-> liq = "error", riskCalls |-> 1,
               liqCalls |-> 1, log |-> "Risk limits breached: %s"]
         ELSE [ok |-> FALSE, raised |-> FALSE, riskCalls |-> 1,
               liqCalls |-> 0, log |-> "Risk limits breached: %s"]
    ELSE [ok |-> TRUE, raised |-> FALSE, riskCalls |-> 1, liqCalls |-> 0,
          log |-> ""]

risk_ok(symbol, qty, risk, liq) ==
    IF KILL_SWITCH
    THEN [ok |-> FALSE, raised |-> FALSE, riskCalls |-> 0, liqCalls |-> 0,
          log |-> "Kill switch active - blocking orders"]
    ELSE IF abs(qty) > MAX_POS_SIZE
    THEN [ok |-> FALSE, raised |-> FALSE, riskCalls |-> 0, liqCalls |-> 0,
          log |-> "Qty %s exceeds MAX_POS_SIZE %s"]
    ELSE IF OFFLINE_MODE
    THEN [ok |-> TRUE, raised |-> FALSE, riskCalls |-> 0, liqCalls |-> 0,
          log |-> "OFFLINE_MODE=true -> skipping broker risk checks"]
    ELSE IF risk = "error"
    THEN [ok |-> FALSE, raised |-> TRUE, riskCalls |-> 1, liqCalls |-> 0,
          log |-> ""]
    ELSE IF risk = "breach"
    THEN IF AUTO_LIQUIDATE
         THEN [ok |-> FALSE, raised |-> liq = "error", riskCalls |-> 1,
               liqCalls |-> 1, log |-> "Risk limits breached: %s"]
         ELSE [ok |-> FALSE, raised |-> FALSE, riskCalls |-> 1,
               liqCalls |-> 0, log |-> "Risk limits breached: %s"]
    ELSE [ok |-> TRUE, raised |-> FALSE, riskCalls |-> 1, liqCalls |-> 0,
          log |-> ""]

\* A payload that treats quantity 0 as a Buy.
Payload_zero_is_buy(symbol, qty) ==
    [accountId |-> ACCOUNT_ID,
     orderType |-> "Market",
     instrument |-> [symbol |-> symbol, assetType |-> "EQ"],
     quantity |-> abs(qty),
     instruction |-> IF qty >= 0 THEN "Buy" ELSE "Sell"]

\* The order payload place_equity_market builds.
Payload(symbol, qty) ==
    [accountId |-> ACCOUNT_ID,
     orderType |-> "Market",
     instrument |-> [symbol |-> symbol, assetType |-> "EQ"],
     quantity |-> abs(qty),
     instruction |-> IF qty > 0 THEN "Buy" ELSE "Sell"]

NoPayload == [accountId |-> "", orderType |-> "",
              instrument |-> [symbol |-> "", assetType |-> ""],
              quantity |-> 0, instruction |-> ""]

\* _simulate_order(payload)
simulate_order(payload) == [status |-> "simulated", payload |-> payload]

\* An executor that re-issues a failed broker call once.
place_equity_market_retry(symbol, qty, risk, liq, post) ==
    LET r == risk_ok(symbol, qty, risk, liq)
        calls == [riskCalls |-> r.riskCalls, liqCalls |-> r.liqCalls,
                  log |-> r.log]
        payload == Payload(symbol, qty)
    IN  IF r.raised
        THEN calls @@ [outcome |-> "raised", error |-> "collaborator failed",
                       status |-> "", payload |-> NoPayload, postCalls |-> 0]
        ELSE IF ~r.ok
        THEN calls @@ [outcome |-> "raised",
                       error |-> "Risk check failed - order blocked",
                       status |-> "", payload |-> NoPayload, postCalls |-> 0]
        ELSE IF DRY_RUN
        THEN calls @@ [outcome |-> "returned", error |-> "",
                       status |-> simulate_order(payload).status,
                       payload |-> simulate_order(payload).payload,
                       postCalls |-> 0]
        ELSE IF post = "error"
        THEN calls @@ [outcome |-> "raised", error |-> "collaborator failed",
                       status |-> "", payload |-> payload, postCalls |-> 2]
        ELSE calls @@ [outcome |-> "returned", error |-> "",
                       status |-> "broker_response", payload |-> payload,
                       postCalls |-> 1]

\* place_equity_market(symbol, qty): post is what api_post() does if called.
\* outcome: "raised" with the exception in error, or "returned" with the
\* returned value (status "simulated" for a dry run, the broker's response
\* otherwise).
place_equity_market(symbol, qty, risk, liq, post) ==
    LET r == risk_ok(symbol, qty, risk, liq)
        calls == [riskCalls |-> r.riskCalls, liqCalls |-> r.liqCalls,
                  log |-> r.log]
        payload == Payload(symbol, qty)
    IN  IF r.raised
        THEN calls @@ [outcome |-> "raised", error |-> "collaborator failed",
                       status |-> "", payload |-> NoPayload, postCalls |-> 0]
        ELSE IF ~r.ok
        THEN calls @@ [outcome |-> "raised",
                       error |-> "Risk check failed - order blocked",
                       status |-> "", payload |-> NoPayload, postCalls |-> 0]
        ELSE IF DRY_RUN
        THEN calls @@ [outcome |-> "returned", error |-> "",
                       status |-> simulate_order(payload).status,
                       payload |-> simulate_order(payload).payload,
                       postCalls |-> 0]
        ELSE IF post = "error"
        THEN calls @@ [outcome |-> "raised", error |-> "collaborator failed",
                       status |-> "", payload |-> payload, postCalls |-> 1]
        ELSE calls @@ [outcome |-> "returned", error |-> "",
                       status |-> "broker_response", payload |-> payload,
                       postCalls |-> 1]

\* A fallback that replaces only a computed quantity of 0.
SizedQty_keeps_negative(sized) == IF sized # 0 THEN sized ELSE 1

\* A fallback that lets a computed quantity of 0 through.
SizedQty_keeps_zero(sized) == IF sized >= 0 THEN sized ELSE 1

\* The quantity place_equity_size_by_atr passes on: qty if qty > 0 else 1
SizedQty(sized) == IF sized > 0 THEN sized ELSE 1

\* place_equity_size_by_atr(symbol): sized is what position_size_by_atr()
\* returned.
place_equity_size_by_atr(symbol, sized, risk, liq, post) ==
    place_equity_market(symbol, SizedQty(sized), risk, liq, post)

\* The order reached dispatch: it was simulated or posted to the broker.
\* position_size_by_atr (risk.py): the stop distance is atr * stop_atr_mult,
\* here in hundredths; the risk amount is account_equity * risk_per_trade,
\* here in ten-thousandths of a dollar; the quantity is the floor of their
\* quotient.  A stop distance that is not positive fails the call.
position_size_by_atr_ceil(account_equity, risk_per_trade, atr, stop_atr_mult) ==
    LET stop == atr * stop_atr_mult
        risk == account_equity * risk_per_trade
    IN  IF stop <= 0
        THEN [raised |-> TRUE, error |-> "invalid_stop_distance", qty |-> 0,
              stop |-> stop, risk |-> risk]
        ELSE [raised |-> FALSE, error |-> "",
              qty |-> (risk + 100 * stop - 1) \div (100 * stop),
              stop |-> stop, risk |-> risk]

position_size_by_atr_wraps(account_equity, risk_per_trade, atr, stop_atr_mult) ==
    LET stop == atr * stop_atr_mult
        risk == account_equity * risk_per_trade
    IN  IF stop <= 0
        THEN [raised |-> TRUE, error |-> "invalid_stop_distance", qty |-> 0,
              stop |-> stop, risk |-> risk]
        ELSE [raised |-> FALSE, error |-> "",
              qty |-> (risk \div (100 * stop)) % 3,
              stop |-> stop, risk |-> risk]

position_size_by_atr(account_equity, risk_per_trade, atr, stop_atr_mult) ==
    LET stop == atr * stop_atr_mult
        risk == account_equity * risk_per_trade
    IN  IF stop <= 0
        THEN [raised |-> TRUE, error |-> "invalid_stop_distance", qty |-> 0,
              stop |-> stop, risk |-> risk]
        ELSE [raised |-> FALSE, error |-> "",
              qty |-> risk \div (100 * stop),
              stop |-> stop, risk |-> risk]

\* What place_equity_size_by_atr leaves behind when position_size_by_atr
\* raised: the exception, and no call of place_equity_market.
SizerRaised(s) ==
    [riskCalls |-> 0, liqCalls |-> 0, log |-> "", outcome |-> "raised",
     error |-> s.error, status |-> "", payload |-> NoPayload, postCalls |-> 0,
     reached |-> FALSE]

\* A caller that places the minimum quantity when the sizer failed.
place_equity_size_by_atr_from_defaulting(symbol, s, risk, liq, post) ==
    IF s.raised
    THEN place_equity_market(symbol, 1, risk, liq, post) @@ [reached |-> TRUE]
    ELSE place_equity_size_by_atr(symbol, s.qty, risk, liq, post)
             @@ [reached |-> TRUE]

\* place_equity_size_by_atr(symbol) with s the outcome of its
\* position_size_by_atr() call: an exception of the sizer leaves the function
\* at line 49, otherwise the quantity goes on to place_equity_market.
place_equity_size_by_atr_from(symbol, s, risk, liq, post) ==
    IF s.raised
    THEN SizerRaised(s)
    ELSE place_equity_size_by_atr(symbol, s.qty, risk, liq, post)
             @@ [reached |-> TRUE]

Dispatched(o) == o.op = "place_equity_market" /\ (o.status = "simulated" \/ o.postCalls = 1)

NoCall == [op |-> "none"]

\* No call has examined the window the clock is in.
NoRun == [key |-> None, n |-> 0, adm |-> 0, clean |-> TRUE]

\* The run after one more call examined key wk (n counts the calls, up to
\* one past the cap; adm those that returned True; clean: the counter of wk
\* was 0 when the first of them examined it).
RunAfter(wk, ok, trades) ==
    IF wk = None THEN NoRun
    ELSE IF wk = run.key
    THEN [run EXCEPT !.n = IF @ <= MAX_TRADES_PER_WINDOW THEN @ + 1 ELSE @,
                     !.adm = IF ok THEN @ + 1 ELSE @]
    ELSE [key |-> wk, n |-> 1, adm |-> IF ok THEN 1 ELSE 0,
          clean |-> get(trades, wk) = 0]

\* ------------------------------------------------------- discovery_engine.py
Range(q) == {q[i] : i \in DOMAIN q}

\* The ticker lists run_scan may find downloaded: all_data['Ticker'].unique()
\* holds no ticker twice.
TickerLists ==
    {q \in UNION {[1 .. n -> Tickers] : n \in 0 .. Cardinality(Tickers)} :
        \A i, j \in DOMAIN q : q[i] = q[j] => i = j}

\* gate_1_price_volume(ticker, data)
gate_1_price_volume(data) ==
    IF data.empty
    THEN [ok |-> FALSE, reason |-> "No data available."]
    ELSE IF data.Close = Missing \/ data.Volume = Missing
    THEN [ok |-> FALSE, reason |-> "Missing Close or Volume data."]
    ELSE IF data.Close > MIN_PRICE /\ data.Volume > MIN_VOLUME
    THEN [ok |-> TRUE, reason |-> ""]
    ELSE [ok |-> FALSE, reason |-> "Price or Volume below threshold."]

\* gate_2_sector_check(ticker, sector), screened being SCREENED_SECTORS
gate_2_sector_check(sector, screened) ==
    IF sector = "Unknown"
    THEN [ok |-> FALSE, reason |-> "Sector could not be identified."]
    ELSE IF sector \notin Range(screened)
    THEN [ok |-> TRUE, reason |-> sector]
    ELSE [ok |-> FALSE, reason |-> "Sector already screened."]

\* gate_3_technical_analysis(ticker, data)
gate_3_technical_analysis(data) ==
    IF data.rsi = RsiError
    THEN [ok |-> FALSE, reason |-> "TA Error"]
    ELSE IF data.rsi < 35
    THEN [ok |-> TRUE, reason |-> "RSI < 35"]
    ELSE [ok |-> FALSE, reason |-> "RSI is not oversold."]

\* One pass of the body of run_scan's loop for ticker, with the data and the
\* sector its lookups give: which gates ran and how each ended, the entry
\* appended to successful_tickers (if any) and SCREENED_SECTORS afterwards.
scan_ticker(ticker, data, sector, screened) ==
    LET g1 == gate_1_price_volume(data)
        g2 == gate_2_sector_check(sector, screened)
        g3 == gate_3_technical_analysis(data)
        verdict(g) == IF g.ok THEN "passed" ELSE "failed"
        passed == g1.ok /\ g2.ok /\ g3.ok
    IN  [ticker |-> ticker,
         sector |-> IF g1.ok THEN sector ELSE "not looked up",
         gate1 |-> verdict(g1),
         gate2 |-> IF g1.ok THEN verdict(g2) ELSE "not run",
         gate3 |-> IF g1.ok /\ g2.ok THEN verdict(g3) ELSE "not run",
         success |-> passed,
         entry |-> [Ticker |-> ticker, Sector |-> sector, Reason |-> g3.reason],
         screened |-> IF passed /\ sector # "" /\ sector \notin Range(screened)
                      THEN Append(screened, sector) ELSE screened]

NoIteration == [ticker |-> "none"]

\* ------------------------------------------------------------------ actions
\* The wall clock advances.
Tick ==
    /\ \E t \in Stamps :
          /\ NotAfter(now, t) /\ t # now
          /\ now' = t
          /\ run' = IF window_key(t) = run.key THEN run ELSE NoRun
    /\ last' = NoCall
    /\ order' = NoCall
    /\ UNCHANGED <<window_trades, pc, admitKey, cfgVars, prev, scanVars>>

\* One call of allow_order by evaluator e.  in_window() reads the clock at the
\* call (now); window_key() reads it again, possibly later (t2).
AllowOrderCall(e, symbol, side, t2) ==
    LET r  == allow_order(symbol, side, now, t2, window_trades)
        wk == ExaminedKey(symbol, side, now, t2)
    IN  /\ pc[e] = "idle"
        /\ NotAfter(now, t2)
        /\ now' = t2
        /\ last' = [op |-> "allow_order", symbol |-> symbol, side |-> side,
                    at |-> now.tod, wk |-> wk, ok |-> r.ok, reason |-> r.reason]
        /\ pc' = [pc EXCEPT ![e] = IF r.ok THEN "admitted" ELSE "idle"]
        /\ admitKey' = [admitKey EXCEPT ![e] = IF r.ok THEN wk ELSE None]
        /\ run' = IF wk = None /\ window_key(t2) = run.key
                  THEN run ELSE RunAfter(wk, r.ok, window_trades)
        /\ order' = NoCall
        /\ UNCHANGED <<window_trades, cfgVars, prev, scanVars>>

\* The single-threaded script: evaluator 1 alone calls the gate.
AllowOrder ==
    \E symbol \in Symbols, side \in Sides, t2 \in Stamps :
        AllowOrderCall(1, symbol, side, t2)

\* Several evaluators call the gate concurrently.
AllowOrderConcurrent(e) ==
    \E symbol \in Symbols, side \in Sides, t2 \in Stamps :
        AllowOrderCall(e, symbol, side, t2)

\* The admitted evaluator e calls record_order().
RecordOrder(e) ==
    /\ pc[e] = "admitted"
    /\ window_trades' = record_order(window_trades, now)
    /\ pc' = [pc EXCEPT ![e] = "idle"]
    /\ admitKey' = [admitKey EXCEPT ![e] = None]
    /\ last' = NoCall
    /\ order' = NoCall
    /\ UNCHANGED <<now, run, cfgVars, prev, scanVars>>

\* The record of a call that entered orders.py at entry and reached
\* place_equity_market(symbol, qty); sized is what the sizer returned (the
\* quantity itself for a direct call).
OrderRecord(entry, symbol, sized, qty, result) ==
    [op |-> "place_equity_market", entry |-> entry, symbol |-> symbol,
     sized |-> sized, qty |-> qty, at |-> now] @@ result

\* One call of place_equity_market(symbol, qty).
PlaceEquityMarket ==
    \E symbol \in Symbols, qty \in Quantities,
       risk \in RiskOutcomes, liq \in CallOutcomes, post \in CallOutcomes :
        /\ order' = OrderRecord("place_equity_market", symbol, qty, qty,
                        place_equity_market(symbol, qty, risk, liq, post))
        /\ last' = NoCall
        /\ UNCHANGED <<now, window_trades, pc, admitKey, run, cfgVars, prev, scanVars>>

\* One call of place_equity_size_by_atr(symbol): sized is the quantity
\* position_size_by_atr() returns.
PlaceEquitySizeByAtr ==
    \E symbol \in Symbols, sized \in SizerOutputs,
       risk \in RiskOutcomes, liq \in CallOutcomes, post \in CallOutcomes :
        /\ order' = OrderRecord("place_equity_size_by_atr", symbol, sized,
                        SizedQty(sized),
                        place_equity_size_by_atr(symbol, sized, risk, liq, post))
        /\ last' = NoCall
        /\ UNCHANGED <<now, window_trades, pc, admitKey, run, cfgVars, prev, scanVars>>

\* What the caller of place_equity_market gets back, with the input it gave.
Returned(o) ==
    [symbol |-> o.symbol, qty |-> o.qty, outcome |-> o.outcome,
     error |-> o.error, status |-> o.status, payload |-> o.payload]

\* A call of place_equity_market(symbol, qty) by a caller that may keep what
\* the call before it returned, to compare a later call with.
PlaceEquityMarketAgain ==
    \E symbol \in Symbols, qty \in RepeatQuantities,
       risk \in RiskOutcomes, liq \in CallOutcomes, post \in CallOutcomes :
        /\ order' = OrderRecord("place_equity_market", symbol, qty, qty,
                        place_equity_market(symbol, qty, risk, liq, post))
        /\ prev' \in {prev} \cup (IF order.op = "place_equity_market"
                                  THEN {Returned(order)} ELSE {})
        /\ last' = NoCall
        /\ UNCHANGED <<now, window_trades, pc, admitKey, run, cfgVars,
                       scanVars>>

\* The record of a position_size_by_atr call with its inputs.
SizerRecord(account_equity, risk_per_trade, atr, stop_atr_mult) ==
    [op |-> "position_size_by_atr", account_equity |-> account_equity,
     risk_per_trade |-> risk_per_trade, atr |-> atr,
     stop_atr_mult |-> stop_atr_mult]
    @@ position_size_by_atr(account_equity, risk_per_trade, atr, stop_atr_mult)

\* One call of place_equity_size_by_atr(symbol) with the sizer computing the
\* quantity from the account and the market data it finds.
PlaceEquitySizeByAtrSized ==
    \E symbol \in Symbols, account_equity \in AccountEquities,
       risk_per_trade \in RiskFractions, atr \in Atrs,
       stop_atr_mult \in StopAtrMults,
       risk \in RiskOutcomes, liq \in CallOutcomes, post \in CallOutcomes :
        LET s == SizerRecord(account_equity, risk_per_trade, atr, stop_atr_mult)
            o == place_equity_size_by_atr_from(symbol, s, risk, liq, post)
        IN  /\ last' = s
            /\ order' = [op |-> IF o.reached THEN "place_equity_market"
                                 ELSE "place_equity_size_by_atr",
                          entry |-> "place_equity_size_by_atr",
                          symbol |-> symbol, sized |-> s.qty,
                          qty |-> IF o.reached THEN SizedQty(s.qty) ELSE 0,
                          at |-> now] @@ o
            /\ UNCHANGED <<now, window_trades, pc, admitKey, run, cfgVars, prev, scanVars>>

\* The limits orders.py holds in its module globals, as one record.
Limits ==
    [kill |-> KILL_SWITCH, max |-> MAX_POS_SIZE, auto |-> AUTO_LIQUIDATE,
     dry |-> DRY_RUN, offline |-> OFFLINE_MODE]

RiskOkRunning == order.op = "risk_ok" /\ order.step # "done"

\* risk_ok(symbol, qty) statement by statement, each global read where the
\* code reads it.  start and after are the limits when the call began and
\* after the update that came in during the call (start when none did).
RiskOkEnter ==
    \E qty \in Quantities, risk \in RiskOutcomes :
        /\ ~RiskOkRunning
        /\ order' = [op |-> "risk_ok", step |-> "kill_switch", qty |-> qty,
                      risk |-> risk, start |-> Limits, after |-> Limits,
                      updated |-> FALSE, ok |-> FALSE, raised |-> FALSE,
                      liqCalls |-> 0]
        /\ last' = NoCall
        /\ UNCHANGED <<now, window_trades, pc, admitKey, run, cfgVars, prev, scanVars>>

RiskOkDone(ok, raised, liqCalls) ==
    /\ order' = [order EXCEPT !.step = "done", !.ok = ok, !.raised = raised,
                              !.liqCalls = liqCalls]
    /\ UNCHANGED <<now, window_trades, pc, admitKey, last, run, cfgVars, prev, scanVars>>

RiskOkGoto(step) ==
    /\ order' = [order EXCEPT !.step = step]
    /\ UNCHANGED <<now, window_trades, pc, admitKey, last, run, cfgVars, prev, scanVars>>

\* if KILL_SWITCH: return False
RiskOkReadKillSwitch ==
    /\ RiskOkRunning /\ order.step = "kill_switch"
    /\ IF KILL_SWITCH THEN RiskOkDone(FALSE, FALSE, 0)
       ELSE RiskOkGoto("max_pos_size")

\* if abs(int(qty)) > int(MAX_POS_SIZE): return False
RiskOkReadMaxPosSize ==
    /\ RiskOkRunning /\ order.step = "max_pos_size"
    /\ IF abs(order.qty) > MAX_POS_SIZE THEN RiskOkDone(FALSE, FALSE, 0)
       ELSE RiskOkGoto("offline_mode")

\* if OFFLINE_MODE: return True
RiskOkReadOfflineMode ==
    /\ RiskOkRunning /\ order.step = "offline_mode"
    /\ IF OFFLINE_MODE THEN RiskOkDone(TRUE, FALSE, 0)
       ELSE RiskOkGoto("check_risk_limits")

\* ok, reasons = check_risk_limits(); return True when ok
RiskOkCheckRiskLimits ==
    /\ RiskOkRunning /\ order.step = "check_risk_limits"
    /\ IF order.risk = "error" THEN RiskOkDone(FALSE, TRUE, 0)
       ELSE IF order.risk = "ok" THEN RiskOkDone(TRUE, FALSE, 0)
       ELSE RiskOkGoto("auto_liquidate")

\* if AUTO_LIQUIDATE: enforce_limits(auto_liquidate=True); return False
RiskOkReadAutoLiquidate ==
    /\ RiskOkRunning /\ order.step = "auto_liquidate"
    /\ IF AUTO_LIQUIDATE
       THEN \E liq \in CallOutcomes : RiskOkDone(FALSE, liq = "error", 1)
       ELSE RiskOkDone(FALSE, FALSE, 0)

\* The configuration collaborator rebinds the limits while a risk_ok call is
\* running (once per call, all fields in one step).
ConfigUpdate ==
    /\ RiskOkRunning /\ ~order.updated
    /\ KILL_SWITCH' \in BOOLEAN
    /\ MAX_POS_SIZE' \in 1 .. MaxPos
    /\ AUTO_LIQUIDATE' \in BOOLEAN
    /\ OFFLINE_MODE' \in BOOLEAN
    /\ DRY_RUN' = DRY_RUN
    /\ order' = [order EXCEPT !.updated = TRUE,
                              !.after = [kill |-> KILL_SWITCH',
                                         max |-> MAX_POS_SIZE',
                                         auto |-> AUTO_LIQUIDATE',
                                         dry |-> DRY_RUN',
                                         offline |-> OFFLINE_MODE']]
    /\ UNCHANGED <<now, window_trades, pc, admitKey, last, run, prev, scanVars>>

\* The wall clock advances to one of the times around the window endpoints.
TickWindow ==
    /\ \E t \in WindowStamps :
          /\ NotAfter(now, t) /\ t # now
          /\ now' = t
    /\ UNCHANGED <<window_trades, pc, admitKey, last, run, cfgVars, order, prev, scanVars>>

\* One call of window_key(): it reads the clock and looks the window up.
WindowKeyCall ==
    /\ last' = [op |-> "window_key", at |-> now, key |-> window_key(now)]
    /\ UNCHANGED <<now, window_trades, pc, admitKey, run, cfgVars, order, prev, scanVars>>

\* run_scan(tickers) begins: the data is downloaded and successful_tickers
\* starts empty.
RunScanStart ==
    \E tickers \in TickerLists :
        /\ scan.pc = "idle"
        /\ scan' = [pc |-> "loop", todo |-> tickers, it |-> NoIteration]
        /\ successful_tickers' = << >>
        /\ UNCHANGED <<now, window_trades, pc, admitKey, last, run, cfgVars,
                       order, prev, SCREENED_SECTORS>>

\* One iteration of the loop of run_scan, for the next ticker.
RunScanIteration ==
    \E data \in TickerData, sector \in Sectors :
        LET r == scan_ticker(Head(scan.todo), data, sector, SCREENED_SECTORS)
        IN  /\ scan.pc = "loop" /\ scan.todo # << >>
            /\ successful_tickers' = IF r.success
                                      THEN Append(successful_tickers, r.entry)
                                      ELSE successful_tickers
            /\ SCREENED_SECTORS' = r.screened
            /\ scan' = [pc |-> "loop", todo |-> Tail(scan.todo),
                         it |-> [ticker |-> r.ticker, sector |-> r.sector,
                                 gate1 |-> r.gate1, gate2 |-> r.gate2,
                                 gate3 |-> r.gate3, success |-> r.success]]
            /\ UNCHANGED <<now, window_trades, pc, admitKey, last, run,
                           cfgVars, order, prev>>

\* The loop of run_scan is over: the results are printed, the call returns.
RunScanFinish ==
    /\ scan.pc = "loop" /\ scan.todo = << >>
    /\ scan' = [pc |-> "idle", todo |-> << >>, it |-> NoIteration]
    /\ UNCHANGED <<now, window_trades, pc, admitKey, last, run, cfgVars,
                   order, prev, SCREENED_SECTORS, successful_tickers>>

\* ------------------------------------------------------------ specification
InitGate ==
    /\ now = [day |-> 0, tod |-> time(6, 30)]
    /\ window_trades = [k \in Keys |-> 0]
    /\ pc = [e \in Evaluators |-> "idle"]
    /\ admitKey = [e \in Evaluators |-> None]
    /\ last = NoCall
    /\ run = NoRun
    /\ order = NoCall
    /\ prev = None
    /\ SCREENED_SECTORS = << >>
    /\ successful_tickers = << >>
    /\ scan = [pc |-> "idle", todo |-> << >>, it |-> NoIteration]

Init ==
    /\ InitGate
    /\ KILL_SWITCH = FALSE
    /\ MAX_POS_SIZE = MaxPos
    /\ AUTO_LIQUIDATE = FALSE
    /\ DRY_RUN = TRUE
    /\ OFFLINE_MODE = TRUE

Next ==
    \/ Tick
    \/ AllowOrder
    \/ RecordOrder(1)

Spec == Init /\ [][Next]_vars

NextConcurrent ==
    \/ Tick
    \/ \E e \in Evaluators : AllowOrderConcurrent(e)
    \/ \E e \in Evaluators : RecordOrder(e)

SpecConcurrent == Init /\ [][NextConcurrent]_vars

\* orders.py with every configuration the process can be started with.
InitOrders ==
    /\ InitGate
    /\ KILL_SWITCH \in BOOLEAN
    /\ MAX_POS_SIZE \in 1 .. MaxPos
    /\ AUTO_LIQUIDATE \in BOOLEAN
    /\ DRY_RUN \in BOOLEAN
    /\ OFFLINE_MODE \in BOOLEAN

NextOrders ==
    \/ Tick
    \/ PlaceEquityMarket
    \/ PlaceEquitySizeByAtr

SpecOrders == InitOrders /\ [][NextOrders]_vars

\* orders.py started for a dry run, called repeatedly.
InitDryRun ==
    /\ InitGate
    /\ KILL_SWITCH = FALSE
    /\ MAX_POS_SIZE = MaxPos
    /\ AUTO_LIQUIDATE \in BOOLEAN
    /\ DRY_RUN = TRUE
    /\ OFFLINE_MODE \in BOOLEAN

NextDryRun ==
    \/ Tick
    \/ PlaceEquityMarketAgain

SpecDryRun == InitDryRun /\ [][NextDryRun]_vars

\* The sizer and the order placed from its result, dry-run configuration.
NextSizer ==
    PlaceEquitySizeByAtrSized

SpecSizer == Init /\ [][NextSizer]_vars

\* risk_ok running while the limits may be rebound.
InitReload ==
    /\ InitGate
    /\ KILL_SWITCH \in BOOLEAN
    /\ MAX_POS_SIZE \in 1 .. MaxPos
    /\ AUTO_LIQUIDATE \in BOOLEAN
    /\ DRY_RUN = TRUE
    /\ OFFLINE_MODE \in BOOLEAN

NextReload ==
    \/ RiskOkEnter
    \/ RiskOkReadKillSwitch
    \/ RiskOkReadMaxPosSize
    \/ RiskOkReadOfflineMode
    \/ RiskOkCheckRiskLimits
    \/ RiskOkReadAutoLiquidate
    \/ ConfigUpdate

SpecReload == InitReload /\ [][NextReload]_vars

\* window_key() called at any time of any day.
InitWindow ==
    /\ now \in WindowStamps
    /\ window_trades = [k \in Keys |-> 0]
    /\ pc = [e \in Evaluators |-> "idle"]
    /\ admitKey = [e \in Evaluators |-> None]
    /\ last = NoCall
    /\ run = NoRun
    /\ order = NoCall
    /\ prev = None
    /\ SCREENED_SECTORS = << >>
    /\ successful_tickers = << >>
    /\ scan = [pc |-> "idle", todo |-> << >>, it |-> NoIteration]
    /\ KILL_SWITCH = FALSE
    /\ MAX_POS_SIZE = MaxPos
    /\ AUTO_LIQUIDATE = FALSE
    /\ DRY_RUN = TRUE
    /\ OFFLINE_MODE = TRUE

NextWindow ==
    \/ TickWindow
    \/ WindowKeyCall

SpecWindow == InitWindow /\ [][NextWindow]_vars

\* discovery_engine.py: run_scan called again and again in one process.
NextScan ==
    \/ RunScanStart
    \/ RunScanIteration
    \/ RunScanFinish

SpecScan == Init /\ [][NextScan]_vars

\* ------------------------------------------------------------------ claims
\* A time of day lies in one of the configured trading windows, endpoints
\* included.
InsideConfiguredWindow(t) ==
    \/ (time(6, 30) <= t /\ t <= time(7, 30))
    \/ (time(12, 0) <= t /\ t <= time(13, 0))

ProtectedSell(symbol, side) ==
    side = "Sell" /\ (symbol = "CWH" \/ symbol = "cwh")

GateCalled == last.op = "allow_order"
OrderCalled == order.op = "place_equity_market"

\* C1: in every reachable state of the single-threaded gate, after any
\* sequence of allow_order calls and recorded admissions at any clock times,
\* every (date, window) counter is at most MAX_TRADES_PER_WINDOW.
C1_WindowCap ==
    \A k \in Keys : window_trades[k] <= MAX_TRADES_PER_WINDOW

C1_Witness ==
    \E k \in Keys :
        /\ window_trades[k] = MAX_TRADES_PER_WINDOW
        /\ GateCalled /\ last.wk = k /\ ~last.ok
        /\ last.reason = "max_trades_this_window"

\* C2: with concurrent evaluators, the trades recorded in a key plus the
\* admissions granted under it and not yet recorded never exceed the cap
\* (no two callers both see room and both increment past it).
C2_AtomicCheckAndIncrement ==
    \A k \in Keys :
        window_trades[k]
          + Cardinality({e \in Evaluators : pc[e] = "admitted" /\ admitKey[e] = k})
        <= MAX_TRADES_PER_WINDOW

\* C3 as stated: of the intents evaluated one after another in one (date,
\* window), exactly the first MAX_TRADES_PER_WINDOW are admitted and the next
\* is denied with reason "window_trade_cap_reached".
C3_AsStated ==
    /\ run.adm = Min({run.n, MAX_TRADES_PER_WINDOW})
    /\ (GateCalled /\ last.wk # None /\ last.wk = run.key
           /\ run.n > MAX_TRADES_PER_WINDOW)
       => (~last.ok /\ last.reason = "window_trade_cap_reached")

\* C3: of the intents evaluated one after another in one (date, window)
\* whose counter was 0 before the first of them, exactly the first
\* MAX_TRADES_PER_WINDOW are admitted and the next is denied with reason
\* "max_trades_this_window".
C3_SequentialThrottle ==
    run.clean =>
        /\ run.adm = Min({run.n, MAX_TRADES_PER_WINDOW})
        /\ (GateCalled /\ last.wk # None /\ last.wk = run.key
               /\ run.n > MAX_TRADES_PER_WINDOW)
           => (~last.ok /\ last.reason = "max_trades_this_window")

C3_Witness ==
    /\ run.clean /\ run.key # None
    /\ run.n = MAX_TRADES_PER_WINDOW + 1 /\ run.adm = MAX_TRADES_PER_WINDOW
    /\ GateCalled /\ last.wk = run.key /\ ~last.ok
    /\ last.reason = "max_trades_this_window"

\* C4 as stated: with the kill switch on, every order is denied with reason
\* "kill_switch_active" and none is simulated or submitted.
C4_AsStated ==
    (OrderCalled /\ KILL_SWITCH) =>
        /\ ~Dispatched(order)
        /\ order.outcome = "raised" /\ order.error = "kill_switch_active"

\* C4: with the kill switch on, risk_ok returns False for every symbol and
\* quantity without calling a collaborator, and place_equity_market raises
\* "Risk check failed - order blocked" (the kill switch is named in the log
\* only); no order is simulated or submitted.
C4_KillSwitch ==
    /\ KILL_SWITCH =>
          \A symbol \in Symbols, qty \in Quantities,
             risk \in RiskOutcomes, liq \in CallOutcomes :
              LET r == risk_ok(symbol, qty, risk, liq)
              IN  ~r.ok /\ ~r.raised /\ r.riskCalls = 0 /\ r.liqCalls = 0
    /\ (OrderCalled /\ KILL_SWITCH) =>
          /\ ~Dispatched(order)
          /\ order.outcome = "raised"
          /\ order.error = "Risk check failed - order blocked"
          /\ order.log = "Kill switch active - blocking orders"
          /\ order.riskCalls = 0 /\ order.liqCalls = 0 /\ order.postCalls = 0

C4_Witness ==
    /\ OrderCalled /\ KILL_SWITCH /\ OFFLINE_MODE /\ DRY_RUN
    /\ abs(order.qty) <= MAX_POS_SIZE
    /\ order.outcome = "raised"

\* C5: no Sell order for a protected symbol is ever simulated or sent to the
\* broker.
C5_ProtectedNeverSold ==
    Dispatched(order) =>
        ~ProtectedSell(order.payload.instrument.symbol, order.payload.instruction)

\* C6 as stated: a Sell on a protected symbol is always denied with reason
\* "protected_symbol_no_sell".
C6_AsStated ==
    (GateCalled /\ ProtectedSell(last.symbol, last.side)) =>
        (~last.ok /\ last.reason = "protected_symbol_no_sell")

\* C6: a Sell on a protected symbol (in any letter case) is always denied,
\* with reason "protected_ticker_never_sell" when the clock is in a trading
\* window and "outside_playbook_window" when it is not, whatever the
\* counters hold; a Buy on a protected symbol gets the result a Buy on an
\* unprotected symbol gets.
C6_ProtectedSellDenied ==
    /\ (GateCalled /\ ProtectedSell(last.symbol, last.side)) =>
          /\ ~last.ok
          /\ last.reason = IF InsideConfiguredWindow(last.at)
                           THEN "protected_ticker_never_sell"
                           ELSE "outside_playbook_window"
    /\ \A t2 \in Stamps :
          /\ allow_order("CWH", "Buy", now, t2, window_trades)
               = allow_order("AAPL", "Buy", now, t2, window_trades)
          /\ allow_order("cwh", "Buy", now, t2, window_trades)
               = allow_order("AAPL", "Buy", now, t2, window_trades)

C6_Witness ==
    /\ GateCalled /\ last.symbol = "cwh" /\ last.side = "Sell"
    /\ ~last.ok /\ last.reason = "protected_ticker_never_sell"
    /\ \E k \in Keys : window_trades[k] = 1

\* C7 as stated: with the kill switch off, a quantity with
\* |q| > MAX_POS_SIZE is denied with reason "max_position_exceeded".
C7_AsStated ==
    (OrderCalled /\ ~KILL_SWITCH /\ abs(order.qty) > MAX_POS_SIZE) =>
        (order.outcome = "raised" /\ order.error = "max_position_exceeded")

\* C7: with the kill switch off, a quantity with |q| > MAX_POS_SIZE makes
\* risk_ok return False without calling a collaborator and
\* place_equity_market raise "Risk check failed - order blocked" (the
\* quantity is named in the log only); a quantity with |q| <= MAX_POS_SIZE
\* is not denied by this check.
C7_MaxPosition ==
    /\ (OrderCalled /\ ~KILL_SWITCH /\ abs(order.qty) > MAX_POS_SIZE) =>
          /\ ~Dispatched(order)
          /\ order.outcome = "raised"
          /\ order.error = "Risk check failed - order blocked"
          /\ order.log = "Qty %s exceeds MAX_POS_SIZE %s"
          /\ order.riskCalls = 0 /\ order.postCalls = 0
    /\ (OrderCalled /\ ~KILL_SWITCH /\ abs(order.qty) <= MAX_POS_SIZE) =>
          /\ order.log # "Qty %s exceeds MAX_POS_SIZE %s"
          /\ OFFLINE_MODE => Dispatched(order)

C7_Witness ==
    /\ OrderCalled /\ ~KILL_SWITCH /\ OFFLINE_MODE
    /\ order.qty = 0 - (MAX_POS_SIZE + 1)
    /\ order.outcome = "raised"

\* C8: every order that is simulated or submitted passed the whole gate:
\* the clock was in a trading window, the order was no Sell of a protected
\* symbol and the window's counter was below the cap.
C8_GateBeforeDispatch ==
    Dispatched(order) =>
        /\ InsideConfiguredWindow(order.at.tod)
        /\ allow_order(order.symbol, order.payload.instruction,
                       order.at, order.at, window_trades).ok

\* C9: when a check before the broker risk check fails (kill switch, max
\* position, trading window, protected symbol, window cap), the account-risk
\* service is not called.
C9_DenyPriority ==
    (/\ OrderCalled
     /\ \/ KILL_SWITCH
        \/ abs(order.qty) > MAX_POS_SIZE
        \/ ~InsideConfiguredWindow(order.at.tod)
        \/ ProtectedSell(order.symbol, IF order.qty > 0 THEN "Buy" ELSE "Sell")
        \/ (window_key(order.at) # None
            /\ window_trades[window_key(order.at)] >= MAX_TRADES_PER_WINDOW))
    => order.riskCalls = 0

\* C10 as stated: an intent evaluated at a time of day in none of the
\* trading windows is denied with reason "outside_trading_window".
C10_AsStated ==
    (GateCalled /\ ~InsideConfiguredWindow(last.at)) =>
        (~last.ok /\ last.reason = "outside_trading_window")

\* C10: an intent evaluated at a time of day in none of the trading windows
\* is denied with reason "outside_playbook_window", for every symbol, side
\* and counter state, and no counter is examined.
C10_OutsideWindowDenied ==
    (GateCalled /\ ~InsideConfiguredWindow(last.at)) =>
        (~last.ok /\ last.reason = "outside_playbook_window" /\ last.wk = None)

C10_Witness ==
    /\ GateCalled /\ ~InsideConfiguredWindow(last.at)
    /\ last.side = "Buy" /\ ~last.ok
    /\ window_key(now) # None
    /\ \E k \in Keys : window_trades[k] = MAX_TRADES_PER_WINDOW

\* C11: every admission, once recorded, has raised the counter of the key it
\* was admitted under by exactly 1 and no other counter, and a denial leaves
\* every counter unchanged.
C11_ExactlyOnceRecording ==
    [][/\ \A e \in Evaluators :
             (pc[e] = "admitted" /\ pc'[e] = "idle") =>
                 /\ admitKey[e] # None
                 /\ window_trades' =
                        [window_trades EXCEPT ![admitKey[e]] = @ + 1]
       /\ (last'.op = "allow_order" /\ ~last'.ok) =>
             window_trades' = window_trades]_vars

\* C12: with OFFLINE_MODE on, the kill switch off and |qty| <= MAX_POS_SIZE
\* (at a time inside a trading window, as at any other time), the risk check
\* admits the order and calls neither the account-risk service nor the
\* liquidation collaborator.
C12_OfflineBypass ==
    /\ (OFFLINE_MODE /\ ~KILL_SWITCH) =>
          \A symbol \in Symbols, qty \in Quantities,
             risk \in RiskOutcomes, liq \in CallOutcomes :
              abs(qty) <= MAX_POS_SIZE =>
                  LET r == risk_ok(symbol, qty, risk, liq)
                  IN  r.ok /\ ~r.raised /\ r.riskCalls = 0 /\ r.liqCalls = 0
    /\ (/\ OrderCalled /\ OFFLINE_MODE /\ ~KILL_SWITCH
        /\ abs(order.qty) <= MAX_POS_SIZE
        /\ InsideConfiguredWindow(order.at.tod)) =>
          /\ order.riskCalls = 0 /\ order.liqCalls = 0
          /\ Dispatched(order)

C12_Witness ==
    /\ OrderCalled /\ OFFLINE_MODE /\ ~KILL_SWITCH /\ ~DRY_RUN /\ AUTO_LIQUIDATE
    /\ order.entry = "place_equity_market"
    /\ abs(order.qty) = MAX_POS_SIZE
    /\ InsideConfiguredWindow(order.at.tod)
    /\ order.riskCalls = 0 /\ order.status = "broker_response"

\* C13: when the risk service reports a breach (not offline), the risk check
\* returns a denial, so that the order is blocked by the risk check's verdict,
\* the liquidation collaborator being called if and only if AUTO_LIQUIDATE is
\* set and never changing what the evaluation returns.
C13_BreachDenies ==
    (/\ OrderCalled /\ ~OFFLINE_MODE
     /\ order.riskCalls = 1 /\ order.log = "Risk limits breached: %s") =>
        /\ order.liqCalls = 1 <=> AUTO_LIQUIDATE
        /\ order.outcome = "raised"
        /\ order.error = "Risk check failed - order blocked"

C15_DryRunNoNetwork ==
    (OrderCalled /\ DRY_RUN) =>
        /\ order.riskCalls = 0 /\ order.liqCalls = 0 /\ order.postCalls = 0
        /\ order.outcome = "returned" =>
              /\ order.status = "simulated"
              /\ order.payload = Payload(order.symbol, order.qty)

\* C16: with DRY_RUN set and an unchanged configuration, a call of
\* place_equity_market with the symbol and signed quantity of an earlier call
\* gives the caller the same result with the same payload, whatever happened
\* in between.
C16_DryRunDeterministic ==
    (/\ DRY_RUN /\ OrderCalled
     /\ DOMAIN prev # {}
     /\ prev.symbol = order.symbol /\ prev.qty = order.qty) =>
        Returned(order) = prev

\* C17: with DRY_RUN off, a call of place_equity_market that reaches the
\* broker order service returns a result to its caller: the broker's response
\* when the broker call succeeds and a rejection result when it fails.
C17_LiveResultReturned ==
    (OrderCalled /\ ~DRY_RUN /\ order.postCalls = 1) =>
        /\ order.outcome = "returned"
        /\ order.status \in {"submitted", "rejected", "broker_response"}

\* C18: a policy denial never raises: a call of place_equity_market or
\* place_equity_size_by_atr that is blocked by the kill switch or by the
\* position limit returns to its caller.
C18_DenialsAreValues ==
    (OrderCalled /\ (KILL_SWITCH \/ abs(order.qty) > MAX_POS_SIZE)) =>
        order.outcome = "returned"

\* C19 as stated: every denial carries a reason drawn from the six strings
\* the specification enumerates, and the reason is empty only on admission.
C19_AsStated ==
    GateCalled =>
        /\ last.ok <=> last.reason = ""
        /\ ~last.ok =>
              last.reason \in {"kill_switch_active", "max_position_exceeded",
                               "outside_trading_window",
                               "protected_symbol_no_sell",
                               "window_trade_cap_reached",
                               "broker_risk_breach"}

\* C19: allow_order returns a pair of a boolean and a reason string; the
\* reason is empty exactly on admission, and on a denial it is one of the
\* three strings of the gate.
C19_ReasonOnEveryDenial ==
    GateCalled =>
        /\ last.ok \in BOOLEAN
        /\ last.ok <=> last.reason = ""
        /\ ~last.ok =>
              last.reason \in {"outside_playbook_window",
                               "protected_ticker_never_sell",
                               "max_trades_this_window"}

C19_Witness ==
    /\ GateCalled /\ last.symbol = "CWH" /\ last.side = "Buy"
    /\ ~last.ok /\ last.reason = "max_trades_this_window"

\* C20: the quantity place_equity_size_by_atr passes on (the sizer's result,
\* or 1 when that is not positive) goes through the MAX_POS_SIZE check of
\* place_equity_market, so no simulated or submitted order, from either entry
\* point, has a quantity above MAX_POS_SIZE.
C20_SizedUnderLimit ==
    /\ \A symbol \in Symbols, sized \in SizerOutputs,
          risk \in RiskOutcomes, liq \in CallOutcomes, post \in CallOutcomes :
           LET o == place_equity_size_by_atr(symbol, sized, risk, liq, post)
           IN  (o.status = "simulated" \/ o.postCalls = 1) =>
                   /\ SizedQty(sized) <= MAX_POS_SIZE
                   /\ o.payload.quantity = SizedQty(sized)
    /\ (OrderCalled /\ Dispatched(order)) =>
           /\ order.payload.quantity <= MAX_POS_SIZE
           /\ order.payload.quantity = abs(order.qty)

C20_Witness ==
    /\ OrderCalled /\ order.entry = "place_equity_size_by_atr"
    /\ ~KILL_SWITCH
    /\ order.sized > MAX_POS_SIZE /\ order.qty = order.sized
    /\ order.outcome = "raised"
    /\ order.log = "Qty %s exceeds MAX_POS_SIZE %s"
    /\ ~Dispatched(order)

\* C21: one call of place_equity_market calls the broker order service at most
\* once and the account-risk service at most once (and enforce_limits at most
\* once); a call that failed is not issued again: the failure ends the call.
C21_NoAutomaticRetry ==
    /\ \A symbol \in Symbols, qty \in Quantities,
          risk \in RiskOutcomes, liq \in CallOutcomes, post \in CallOutcomes :
           LET o == place_equity_market(symbol, qty, risk, liq, post)
           IN  /\ o.postCalls <= 1 /\ o.riskCalls <= 1 /\ o.liqCalls <= 1
               /\ (o.riskCalls = 1 /\ risk = "error") =>
                     o.outcome = "raised" /\ o.liqCalls = 0 /\ o.postCalls = 0
               /\ (o.postCalls >= 1 /\ post = "error") =>
                     o.outcome = "raised" /\ o.postCalls = 1
    /\ OrderCalled =>
           order.postCalls <= 1 /\ order.riskCalls <= 1 /\ order.liqCalls <= 1

C21_Witness ==
    /\ OrderCalled /\ ~DRY_RUN /\ ~OFFLINE_MODE
    /\ order.riskCalls = 1 /\ order.postCalls = 1
    /\ order.outcome = "raised" /\ order.error = "collaborator failed"
    /\ order.payload.quantity = MAX_POS_SIZE

\* The sizer call that has just returned.
SizerCalled == last.op = "position_size_by_atr"

\* C22: for a positive stop distance the sizer returns the floor of
\* risk_amount / stop_distance, i.e. the integer q with
\* q * stop_distance <= risk_amount < (q + 1) * stop_distance; for atr 2.0,
\* stop multiple 1.5, equity 100000 and risk fraction 0.01 the stop distance is
\* 3.0, the risk amount 1000 and the quantity 333.
C22_SizingFormula ==
    (SizerCalled /\ last.atr * last.stop_atr_mult > 0) =>
        /\ ~last.raised
        /\ last.qty * (100 * last.atr * last.stop_atr_mult)
               <= last.account_equity * last.risk_per_trade
        /\ last.account_equity * last.risk_per_trade
               < (last.qty + 1) * (100 * last.atr * last.stop_atr_mult)
        /\ (/\ last.atr = 20 /\ last.stop_atr_mult = 15
            /\ last.account_equity = 100000 /\ last.risk_per_trade = 100) =>
               /\ last.stop = 300 /\ last.risk = 1000 * 10000
               /\ last.qty = 333

C22_Witness ==
    /\ SizerCalled
    /\ last.atr = 20 /\ last.stop_atr_mult = 15
    /\ last.account_equity = 100000 /\ last.risk_per_trade = 100
    /\ last.qty = 333

C24_MinimumQuantityFallback ==
    (order.op # "none" /\ order.entry = "place_equity_size_by_atr") =>
        /\ OrderCalled
        /\ order.sized <= 0 => order.qty = 1
        /\ order.sized > 0 => order.qty = order.sized
        /\ Dispatched(order) =>
              /\ order.payload.quantity = order.qty
              /\ order.payload.instruction = "Buy"

C24_Witness ==
    /\ OrderCalled /\ order.entry = "place_equity_size_by_atr"
    /\ order.sized = 0 /\ order.qty = 1
    /\ DRY_RUN /\ order.status = "simulated"
    /\ order.payload.quantity = 1 /\ order.payload.instruction = "Buy"

DecisionFor(l, qty, risk) ==
    /\ ~l.kill
    /\ abs(qty) <= l.max
    /\ l.offline \/ risk = "ok"

\* C26: the decision of a risk_ok call during which the limits were updated
\* equals the decision for the limits before the update or for the limits
\* after it.
C26_ConsistentSnapshot ==
    (order.op = "risk_ok" /\ order.step = "done") =>
        \/ order.ok = DecisionFor(order.start, order.qty, order.risk)
        \/ order.ok = DecisionFor(order.after, order.qty, order.risk)

\* C27: window_key returns (date, 0) for a time of day from 06:30 to 07:30
\* and (date, 1) for one from 12:00 to 13:00, endpoints included, and None
\* for any other time; the window it names is the first in TRADE_WINDOWS that
\* contains the time.
C27_WindowLookup ==
    last.op = "window_key" =>
        LET t == last.at.tod
        IN  /\ (time(6, 30) <= t /\ t <= time(7, 30)) =>
                  last.key = <<last.at.day, 0>>
            /\ (time(12, 0) <= t /\ t <= time(13, 0)) =>
                  last.key = <<last.at.day, 1>>
            /\ (t < time(6, 30) \/ (time(7, 30) < t /\ t < time(12, 0))
                    \/ time(13, 0) < t) =>
                  last.key = None
            /\ last.key # None =>
                  \A i \in DOMAIN TRADE_WINDOWS :
                      (TRADE_WINDOWS[i][1] <= t /\ t <= TRADE_WINDOWS[i][2]) =>
                          last.key[2] <= i - 1

C27_Witness ==
    /\ last.op = "window_key"
    /\ last.at = [day |-> MaxDay, tod |-> time(13, 0)]
    /\ last.key = <<MaxDay, 1>>
    /\ now = [day |-> MaxDay, tod |-> time(13, 1)]
    /\ window_key(now) = None

\* C28: an allow_order call that got past the window check is denied as a
\* protected-ticker sale if and only if the side is Sell and the upper-cased
\* symbol is CWH; no Buy is ever denied for that reason, and Sell of "cwh" is
\* denied exactly as Sell of "CWH".
C28_ProtectedPredicate ==
    GateCalled =>
        /\ (last.reason = "protected_ticker_never_sell")
               <=> (/\ InsideConfiguredWindow(last.at)
                    /\ last.side = "Sell"
                    /\ last.symbol \in {"CWH", "cwh"})
        /\ last.side = "Buy" => last.reason # "protected_ticker_never_sell"

C28_Witness ==
    /\ GateCalled /\ last.symbol = "CWH" /\ last.side = "Buy"
    /\ InsideConfiguredWindow(last.at)
    /\ last.ok /\ last.reason = ""

\* The key of the window a timestamp lies in, None outside every window.
KeyOfStamp(dt) ==
    IF time(6, 30) <= dt.tod /\ dt.tod <= time(7, 30) THEN <<dt.day, 0>>
    ELSE IF time(12, 0) <= dt.tod /\ dt.tod <= time(13, 0) THEN <<dt.day, 1>>
    ELSE None

\* C29: a record_order call raises by exactly 1 the counter of the key of the
\* window the clock is in and leaves every other counter as it was, and
\* changes no counter when the clock is outside every window; an allow_order
\* call is denied by the throttle only when the counter of the very key it
\* examined has reached the cap, whatever the counters of other keys are.
C29_FrameOfRecord ==
    [][/\ (pc[1] = "admitted" /\ pc'[1] = "idle") =>
             IF KeyOfStamp(now) = None
             THEN window_trades' = window_trades
             ELSE window_trades' =
                      [window_trades EXCEPT ![KeyOfStamp(now)] = @ + 1]
       /\ (last'.op = "allow_order" /\ last'.wk # None) =>
             (last'.ok <=> window_trades[last'.wk] < MAX_TRADES_PER_WINDOW)
       /\ (last'.op = "allow_order"
              /\ last'.reason = "max_trades_this_window") =>
             last'.wk # None]_vars

C29_Witness ==
    /\ GateCalled /\ last.ok /\ last.wk = <<1, 0>>
    /\ window_trades[<<0, 0>>] = MAX_TRADES_PER_WINDOW
    /\ window_trades[<<0, 1>>] = MAX_TRADES_PER_WINDOW
    /\ window_trades[<<1, 0>>] = 1

\* C30: with the clock free to advance between the clock reads of in_window,
\* window_key and record_order, every admission is granted after the counter
\* of a defined window key was found below the cap, and the record_order call
\* that follows counts it in that key and in no other.
C30_OneClockReading ==
    [][/\ (last'.op = "allow_order" /\ last'.ok) =>
             /\ last'.wk # None
             /\ window_trades[last'.wk] < MAX_TRADES_PER_WINDOW
       /\ (pc[1] = "admitted" /\ pc'[1] = "idle" /\ admitKey[1] # None) =>
             /\ window_trades'[admitKey[1]] = window_trades[admitKey[1]] + 1
             /\ \A k \in Keys :
                   k # admitKey[1] => window_trades'[k] = window_trades[k]]_vars

\* C31: an order that place_equity_market simulated or submitted for the
\* signed quantity q carries a payload with quantity |q| (never negative),
\* orderType "Market", assetType "EQ", the symbol given, and instruction "Buy"
\* exactly when q > 0, "Sell" otherwise; q = 0 is not refused by the risk
\* check unless the kill switch is on, and gives a Sell of quantity 0.
C31_PayloadDirectionAndSize ==
    /\ (OrderCalled /\ Dispatched(order)) =>
          /\ order.payload.quantity >= 0
          /\ order.qty >= 0 => order.payload.quantity = order.qty
          /\ order.qty < 0 => order.payload.quantity = 0 - order.qty
          /\ order.payload.orderType = "Market"
          /\ order.payload.instrument.assetType = "EQ"
          /\ order.payload.instrument.symbol = order.symbol
          /\ order.payload.instruction \in {"Buy", "Sell"}
          /\ order.payload.instruction = "Buy" <=> order.qty > 0
    /\ (OrderCalled /\ order.qty = 0 /\ ~KILL_SWITCH /\ OFFLINE_MODE) =>
          /\ Dispatched(order)
          /\ order.payload.instruction = "Sell"
          /\ order.payload.quantity = 0

C31_Witness ==
    /\ OrderCalled /\ order.entry = "place_equity_market"
    /\ order.qty = 0 /\ order.symbol = "AAPL"
    /\ ~DRY_RUN /\ order.status = "broker_response"
    /\ order.payload.instruction = "Sell" /\ order.payload.quantity = 0

\* C32: whatever the sizer returned (positive, zero or negative),
\* place_equity_size_by_atr passes a quantity >= 1 to place_equity_market, and
\* an order dispatched from it is a Buy with payload quantity >= 1, never a
\* Sell.
C32_AtrOrdersAreBuys ==
    (OrderCalled /\ order.entry = "place_equity_size_by_atr") =>
        /\ order.qty >= 1
        /\ Dispatched(order) =>
              /\ order.payload.instruction = "Buy"
              /\ order.payload.instruction # "Sell"
              /\ order.payload.quantity >= 1

C32_Witness ==
    /\ OrderCalled /\ order.entry = "place_equity_size_by_atr"
    /\ order.sized = 0 - 1 /\ order.qty = 1
    /\ ~DRY_RUN /\ order.status = "broker_response"
    /\ order.payload.instruction = "Buy" /\ order.payload.quantity = 1

\* An iteration of run_scan's loop has just been made.
ScanIterated == scan.pc = "loop" /\ scan'.pc = "loop" /\ scan'.it.ticker # "none"
                    /\ Len(scan'.todo) < Len(scan.todo)

\* C33: in every iteration of every run_scan call, a ticker is added to
\* successful_tickers only after passing gates 1, 2 and 3, its sector being
\* absent from SCREENED_SECTORS before and appended to it in that iteration; a
\* ticker whose sector is in SCREENED_SECTORS fails gate 2; SCREENED_SECTORS
\* only grows at its end, holds no duplicate and no "Unknown"; and no two
\* entries of successful_tickers have the same sector.
C33_SectorExclusivity ==
    [][/\ (ScanIterated /\ scan'.it.success) =>
             /\ scan'.it.gate1 = "passed" /\ scan'.it.gate2 = "passed"
             /\ scan'.it.gate3 = "passed"
             /\ scan'.it.sector \notin Range(SCREENED_SECTORS)
             /\ SCREENED_SECTORS' = Append(SCREENED_SECTORS, scan'.it.sector)
             /\ successful_tickers'[Len(successful_tickers')].Sector
                    = scan'.it.sector
       /\ (ScanIterated /\ scan'.it.sector \in Range(SCREENED_SECTORS)) =>
             scan'.it.gate2 = "failed" /\ ~scan'.it.success
       /\ (ScanIterated /\ ~scan'.it.success) =>
             /\ SCREENED_SECTORS' = SCREENED_SECTORS
             /\ successful_tickers' = successful_tickers
       /\ Len(SCREENED_SECTORS') >= Len(SCREENED_SECTORS)
       /\ \A i \in DOMAIN SCREENED_SECTORS :
             SCREENED_SECTORS'[i] = SCREENED_SECTORS[i]
       /\ \A i, j \in DOMAIN SCREENED_SECTORS' :
             SCREENED_SECTORS'[i] = SCREENED_SECTORS'[j] => i = j
       /\ "Unknown" \notin Range(SCREENED_SECTORS')
       /\ \A i, j \in DOMAIN successful_tickers' :
             successful_tickers'[i].Sector = successful_tickers'[j].Sector
                 => i = j]_vars

====
